---- MODULE Spec2Model ----
(***************************************************************************)
(* Boot-resilience and network-bootstrap logic of Basecamp: the startup    *)
(* sequence of Basecamp::begin (configuration load, checkResetReason,      *)
(* access point secret, WifiControl::begin) and the asynchronous           *)
(* WifiControl::WiFiEvent handler, over the two persistent stores (the     *)
(* "basecamp" preferences namespace and the SPIFFS configuration file).    *)
(* Strings that the code measures, formats or parses are sequences of      *)
(* one-character strings; the WifiConfigured flag is kept as a string      *)
(* value because the code only compares it.                                *)
(***************************************************************************)
EXTENDS Integers, Sequences, FiniteSets, TLC

VARIABLES
    pc,             \* position of the device in the startup sequence
    sketch,         \* constructor arguments and the argument of begin()
    reason,         \* rtc_get_reset_reason(0) of the current boot
    cfgFile,        \* /basecamp.json on SPIFFS
    configuration,  \* Basecamp::configuration (in memory)
    prefs,          \* preferences namespace "basecamp" (NVS)
    encryption,     \* Basecamp::setupModeWifiEncryption_
    mode,           \* WifiControl::operationMode_
    net,            \* what has been requested from the WiFi driver this boot
    action,         \* outcome of checkResetReason in the current boot
    bootLog,        \* storage and restart calls of checkResetReason, in order
    pre,            \* persisted state when checkResetReason was entered
    hist,           \* history: streak counters and the last acquired addresses
    task,           \* positions inside checkResetReason and inside WiFiEvent
    gen             \* one call of generateRandomSecret: argument and result

vars == <<pc, sketch, reason, cfgFile, configuration, prefs, encryption, mode,
          net, action, bootLog, pre, hist, task, gen>>

----------------------------------------------------------------------------
(* Bounds *)

MaxStreak == 8
MaxReconnects == 2
MaxEvents == 3
MaxSecretLength == 12

(* Program constants *)

minApSecretLength == 8
defaultApSecretLength == 8

\* Reset reasons of rom/rtc.h used as inputs: POWERON_RESET, SW_CPU_RESET,
\* RTCWDT_BROWN_OUT_RESET, RTCWDT_RTC_RESET.
ResetReasons == {1, 12, 15, 16}

Qualifying(r) == r = 1 \/ r = 16

----------------------------------------------------------------------------
(* Strings and addresses *)

Digits == <<"0", "1", "2", "3", "4", "5", "6", "7", "8", "9">>

IsDigit(c) == \E i \in 1..10 : Digits[i] = c

DigitVal(c) == (CHOOSE i \in 1..10 : Digits[i] = c) - 1

OctetToString(n) ==
    IF n < 10 THEN <<Digits[n + 1]>>
    ELSE IF n < 100 THEN <<Digits[(n \div 10) + 1], Digits[(n % 10) + 1]>>
    ELSE <<Digits[(n \div 100) + 1], Digits[((n \div 10) % 10) + 1],
           Digits[(n % 10) + 1]>>

\* IPAddress::toString(): the four bytes in decimal, joined by dots.
IPToString(a) ==
    OctetToString(a[1]) \o <<".">> \o OctetToString(a[2]) \o <<".">> \o
    OctetToString(a[3]) \o <<".">> \o OctetToString(a[4])

\* IPAddress::fromString(): one pass with an accumulator and a dot counter.
RECURSIVE FromStringLoop(_, _, _, _, _)
FromStringLoop(s, i, acc, dots, bytes) ==
    IF i > Len(s)
    THEN IF dots # 3
         THEN [ok |-> FALSE, addr |-> <<0, 0, 0, 0>>]
         ELSE [ok |-> TRUE, addr |-> [bytes EXCEPT ![4] = acc]]
    ELSE LET c == s[i] IN
         IF IsDigit(c)
         THEN LET acc2 == acc * 10 + DigitVal(c) IN
              IF acc2 > 255
              THEN [ok |-> FALSE, addr |-> <<0, 0, 0, 0>>]
              ELSE FromStringLoop(s, i + 1, acc2, dots, bytes)
         ELSE IF c = "."
         THEN IF dots = 3
              THEN [ok |-> FALSE, addr |-> <<0, 0, 0, 0>>]
              ELSE FromStringLoop(s, i + 1, 0, dots + 1,
                                  [bytes EXCEPT ![dots + 1] = acc])
         ELSE [ok |-> FALSE, addr |-> <<0, 0, 0, 0>>]

FromString(s) == FromStringLoop(s, 1, 0, 0, <<0, 0, 0, 0>>)

\* Address, gateway and mask the driver can report on GOT_IP.
AcquiredTriples ==
    { [ip |-> <<192, 168, 1, 23>>, gw |-> <<192, 168, 1, 1>>,
       mask |-> <<255, 255, 255, 0>>],
      [ip |-> <<10, 0, 0, 7>>, gw |-> <<10, 0, 0, 1>>,
       mask |-> <<255, 0, 0, 0>>] }

NoTriple == [ip |-> <<0, 0, 0, 0>>, gw |-> <<0, 0, 0, 0>>,
             mask |-> <<0, 0, 0, 0>>]

----------------------------------------------------------------------------
(* Preferences namespace "basecamp" *)

PrefKeys == {"bootcounter", "ipaddress", "gatewayIp", "subnetMask"}

\* Preferences::clear(): every key of the namespace is erased.
PrefsCleared ==
    [has |-> {}, bootcounter |-> 0, ipaddress |-> <<>>, gatewayIp |-> <<>>,
     subnetMask |-> <<>>]

GetUInt(p, def) == IF "bootcounter" \in p.has THEN p.bootcounter ELSE def

PutUInt(p, v) ==
    [p EXCEPT !.has = @ \cup {"bootcounter"}, !.bootcounter = v]

GetString(p, key, def) ==
    IF key \in p.has
    THEN CASE key = "ipaddress" -> p.ipaddress
           [] key = "gatewayIp" -> p.gatewayIp
           [] OTHER -> p.subnetMask
    ELSE def

PutStrings(p, ip, gw, mask) ==
    [p EXCEPT !.has = @ \cup {"ipaddress", "gatewayIp", "subnetMask"},
              !.ipaddress = ip, !.gatewayIp = gw, !.subnetMask = mask]

----------------------------------------------------------------------------
(* Configuration store *)

ConfigDefaults ==
    [WifiConfigured |-> "", WifiEssid |-> "", accessPointSecret |-> <<>>]

ConfiguredValues == {"True", "False", "", "true"}

IsKeySet(v) == v # <<>>

Saved(c) == [exists |-> TRUE, data |-> c]

Formatted == [exists |-> FALSE, data |-> ConfigDefaults]

\* Configuration::load() followed by reset() when it fails.
LoadOrReset(f) == IF f.exists THEN f.data ELSE ConfigDefaults

----------------------------------------------------------------------------
(* Access point secret *)

validChars ==
    <<"a", "b", "c", "d", "e", "f", "g", "h", "j", "k", "m", "n", "o", "p",
      "q", "r", "s", "t", "u", "v", "w", "x", "y", "z",
      "A", "B", "C", "D", "E", "F", "G", "H", "J", "K", "M", "N", "P", "Q",
      "R", "S", "T", "U", "V", "W", "X", "Y", "Z",
      "2", "3", "4", "5", "6", "7", "8", "9",
      ".", "-", ",", ":", "$", "/">>

\* Values of esp_random() for the successive characters of one secret.
RandomStreams ==
    { [i \in 0..15 |-> 0],
      [i \in 0..15 |-> 2147483647],
      [i \in 0..15 |-> 7 * i + 3] }

generateRandomSecret_exact(length, rnd) ==
    [i \in 1..length |-> validChars[(rnd[i - 1] % Len(validChars)) + 1]]

\* WifiControl.cpp:168-184
generateRandomSecret(length, rnd) ==
    LET useLength == IF length < minApSecretLength THEN minApSecretLength
                     ELSE length
    IN  [i \in 1..useLength |-> validChars[(rnd[i - 1] % Len(validChars)) + 1]]

ShortSecret == <<"s", "e", "c">>
FixedSecret == <<"f", "i", "x", "e", "d", "-", "p", "w">>

FixedPasswords == {<<>>, ShortSecret, FixedSecret}

----------------------------------------------------------------------------
(* Initial state: a device that is powered off, with its flash contents *)

NetOff ==
    [staticApplied |-> FALSE, static |-> NoTriple, staBegun |-> FALSE,
     ap |-> "off", apSecret |-> <<>>, handler |-> FALSE, reconnects |-> 0,
     configured |-> ""]

HistInit == [streak |-> 0, sinceClear |-> 0, run |-> 0,
             gotIp |-> FALSE, lastGotIp |-> NoTriple, lastOp |-> "none",
             generated |-> FALSE, stage |-> "none", afterReset |-> 0]

PreOf(p, c, f) == [prefs |-> p, configuration |-> c, cfgFile |-> f]

\* Nothing is inside checkResetReason or WiFiEvent and no event is in flight.
TaskIdle ==
    [main |-> "idle", bootCounter |-> 0, h |-> "idle", hCounter |-> 0,
     event |-> [kind |-> "NONE", t |-> NoTriple], queue |-> <<>>,
     arrived |-> 0]

GenIdle == [length |-> 0, secret |-> <<>>, done |-> FALSE]

Init ==
    /\ pc = "off"
    /\ sketch \in [encryption : {"none", "secured"},
                   ui : {"always", "accessPoint"},
                   fixedPw : FixedPasswords]
    /\ reason = 0
    /\ cfgFile \in {Formatted} \cup
                   { Saved([ConfigDefaults EXCEPT !.WifiConfigured = v]) :
                       v \in ConfiguredValues }
    /\ configuration = ConfigDefaults
    /\ prefs = PrefsCleared
    /\ encryption = sketch.encryption
    /\ mode = "unconfigured"
    /\ net = NetOff
    /\ action = "none"
    /\ bootLog = <<>>
    /\ pre = PreOf(prefs, configuration, cfgFile)
    /\ hist = HistInit
    /\ task = TaskIdle
    /\ gen = GenIdle

----------------------------------------------------------------------------
(* Basecamp::begin, first part: encryption policy and configuration load.  *)
(* A boot can start from any position: power can be cut and the reset      *)
(* button pressed at any time.                                             *)

\* Basecamp.cpp:67-73: a fixed secret of sufficient length forces "secured".
EncryptionFor(ctorEncryption, fixedPw) ==
    IF Len(fixedPw) # 0 /\ Len(fixedPw) >= minApSecretLength
    THEN "secured"
    ELSE ctorEncryption

Boot(r) ==
    /\ Qualifying(r) => hist.streak < MaxStreak
    /\ reason' = r
    /\ encryption' = EncryptionFor(sketch.encryption, sketch.fixedPw)
    /\ configuration' = LoadOrReset(cfgFile)
    /\ cfgFile' = IF cfgFile.exists THEN cfgFile ELSE Saved(ConfigDefaults)
    /\ mode' = "unconfigured"
    /\ net' = NetOff
    /\ action' = "none"
    /\ bootLog' = <<>>
    /\ pre' = PreOf(prefs, configuration', cfgFile')
    /\ hist' = [hist EXCEPT
          !.lastOp = "Boot",
          !.generated = FALSE,
          !.stage = IF configuration'.WifiConfigured = "True" THEN "true"
                    ELSE @,
          !.afterReset = IF configuration'.WifiConfigured = "True" THEN 0
                         ELSE @]
    /\ pc' = "check"
    /\ task' = TaskIdle
    /\ UNCHANGED <<sketch, prefs, gen>>

----------------------------------------------------------------------------
(* Basecamp::checkResetReason *)

IncrementedCounter_same(p) == GetUInt(p, 0)

\* Basecamp.cpp:241-243: read the stored counter and increment it.  The stored
\* value never exceeds 3, so the unsigned increment cannot wrap.
IncrementedCounter(p) == GetUInt(p, 0) + 1

NetworkResetDue_late(bootCounter) == bootCounter > 4

NetworkResetDue_early(bootCounter) == bootCounter >= 3

\* Basecamp.cpp:249
NetworkResetDue(bootCounter) == bootCounter > 3

FactoryResetDue_anyFlag(bootCounter, configured) == bootCounter > 2

FactoryResetDue_late(bootCounter, configured) ==
    bootCounter > 3 /\ configured = "False"

\* Basecamp.cpp:264
FactoryResetDue(bootCounter, configured) ==
    bootCounter > 2 /\ configured = "False"

StoredCounter_alone(p, bootCounter) == PutUInt(PrefsCleared, bootCounter)

\* Basecamp.cpp:278
StoredCounter(p, bootCounter) == PutUInt(p, bootCounter)

ClearedOnOtherCause_kept(p) == p

\* Basecamp.cpp:283
ClearedOnOtherCause(p) == PrefsCleared

\* Basecamp.cpp:232, 252-261
NetworkResetCalls ==
    <<"preferences.begin", "configuration.set", "configuration.save",
      "preferences.clear", "preferences.end", "ESP.restart">>

FactoryResetCalls_noEnd ==
    <<"preferences.begin", "SPIFFS.format", "preferences.clear",
      "ESP.restart">>

\* Basecamp.cpp:232, 267-274
FactoryResetCalls ==
    <<"preferences.begin", "SPIFFS.format", "preferences.clear",
      "preferences.end", "ESP.restart">>

\* Basecamp.cpp:232, 278, 286
ContinueCalls == <<"preferences.begin", "preferences.putUInt", "preferences.end">>

\* Basecamp.cpp:232, 283, 286
OtherCauseCalls == <<"preferences.begin", "preferences.clear", "preferences.end">>

\* History after one evaluation of checkResetReason with reset reason r and
\* outcome act, entered with preferences p and configuration c.
CheckedHist(h, r, act, p, c) ==
    [h EXCEPT
          !.streak = IF Qualifying(r) THEN @ + 1 ELSE 0,
          !.sinceClear = IF Qualifying(r) /\ act = "ContinueNormalBoot"
                         THEN @ + 1 ELSE 0,
          !.run = IF ~Qualifying(r) THEN 0
                  ELSE IF GetUInt(p, 0) = 0
                          /\ c.WifiConfigured = "True" THEN 1
                  ELSE IF @ > 0 THEN @ + 1 ELSE 0,
          !.stage = IF act = "ResetNetworkConfigAndReboot"
                    THEN (IF @ = "none" THEN "none" ELSE "netreset")
                    ELSE IF act = "FactoryResetAndReboot"
                    THEN (IF @ = "none" THEN "none"
                          ELSE IF @ = "netreset" THEN "wiped" ELSE "skipped")
                    ELSE @,
          !.afterReset = IF act = "ResetNetworkConfigAndReboot" THEN 0
                         ELSE IF Qualifying(r) /\ @ < 3 THEN @ + 1
                         ELSE @,
          !.lastOp = "checkResetReason"]

Recovery == {"ResetNetworkConfigAndReboot", "FactoryResetAndReboot"}

\* Basecamp.cpp:239-284: the branch taken for the incremented counter.
ResetReasonEffects(bootCounter) ==
    IF Qualifying(reason)
    THEN IF NetworkResetDue(bootCounter)
         THEN /\ configuration' =
                     [configuration EXCEPT !.WifiConfigured = "False"]
              /\ cfgFile' = Saved(configuration')
              /\ prefs' = PrefsCleared
              /\ bootLog' = NetworkResetCalls
              /\ action' = "ResetNetworkConfigAndReboot"
         ELSE IF FactoryResetDue(bootCounter, configuration.WifiConfigured)
         THEN /\ cfgFile' = Formatted
              /\ prefs' = PrefsCleared
              /\ bootLog' = FactoryResetCalls
              /\ action' = "FactoryResetAndReboot"
              /\ UNCHANGED configuration
         ELSE /\ prefs' = StoredCounter(prefs, bootCounter)
              /\ bootLog' = ContinueCalls
              /\ action' = "ContinueNormalBoot"
              /\ UNCHANGED <<configuration, cfgFile>>
    ELSE /\ prefs' = ClearedOnOtherCause(prefs)
         /\ bootLog' = OtherCauseCalls
         /\ action' = "ContinueNormalBoot"
         /\ UNCHANGED <<configuration, cfgFile>>

checkResetReason ==
    /\ pc = "check"
    /\ ResetReasonEffects(IncrementedCounter(prefs))
    /\ pc' = IF action' \in Recovery THEN "restart" ELSE "secret"
    /\ hist' = CheckedHist(hist, reason, action', prefs, configuration)
    /\ UNCHANGED <<sketch, reason, encryption, mode, net, pre, task, gen>>

----------------------------------------------------------------------------
(* Basecamp::begin, access point secret (Basecamp.cpp:99-114) *)

SecretRewriteDue_fixedOnly(stored, fixedPw) ==
    Len(fixedPw) >= minApSecretLength

\* Basecamp.cpp:101-102
SecretRewriteDue(stored, fixedPw) ==
    ~IsKeySet(stored) \/ Len(fixedPw) >= minApSecretLength

ChosenSecret_anyFixed(fixedPw, rnd) ==
    IF Len(fixedPw) = 0
    THEN generateRandomSecret(defaultApSecretLength, rnd)
    ELSE fixedPw

\* Basecamp.cpp:104-111
ChosenSecret(fixedPw, rnd) ==
    IF Len(fixedPw) < minApSecretLength
    THEN generateRandomSecret(defaultApSecretLength, rnd)
    ELSE fixedPw

ResolveSecret ==
    /\ pc = "secret"
    /\ IF SecretRewriteDue(configuration.accessPointSecret, sketch.fixedPw)
       THEN \E rnd \in RandomStreams :
              LET apSecret == ChosenSecret(sketch.fixedPw, rnd)
              IN /\ configuration' =
                        [configuration EXCEPT !.accessPointSecret = apSecret]
                 /\ cfgFile' = Saved(configuration')
       ELSE UNCHANGED <<configuration, cfgFile>>
    /\ hist' = [hist EXCEPT
          !.lastOp = "ResolveSecret",
          !.generated =
              /\ SecretRewriteDue(configuration.accessPointSecret,
                                  sketch.fixedPw)
              /\ Len(sketch.fixedPw) < minApSecretLength]
    /\ pc' = "wifi"
    /\ UNCHANGED <<sketch, reason, prefs, encryption, mode, net, action,
                   bootLog, pre, task, gen>>

----------------------------------------------------------------------------
(* WifiControl::begin, as called from Basecamp.cpp:123-130 *)

ModeFor_lenient(configured) ==
    IF configured # "False" THEN "client" ELSE "accessPoint"

\* WifiControl.cpp:28-29, 52-53
ModeFor(configured) == IF configured = "True" THEN "client" ELSE "accessPoint"

StaticConfigDue_ipOnly(p) == FromString(GetString(p, "ipaddress", <<>>)).ok

\* WifiControl.cpp:37-39
StaticConfigDue(p) ==
    /\ FromString(GetString(p, "ipaddress", <<>>)).ok
    /\ FromString(GetString(p, "gatewayIp", <<>>)).ok
    /\ FromString(GetString(p, "subnetMask", <<>>)).ok

StaticConfigOf(p) ==
    [ip |-> FromString(GetString(p, "ipaddress", <<>>)).addr,
     gw |-> FromString(GetString(p, "gatewayIp", <<>>)).addr,
     mask |-> FromString(GetString(p, "subnetMask", <<>>)).addr]

ApSecretArgument_always(enc, secret) == secret

\* Basecamp.cpp:129
ApSecretArgument(enc, secret) == IF enc = "none" THEN <<>> ELSE secret

\* WifiControl.cpp:58-65
ApStart(apSecret) == IF Len(apSecret) > 0 THEN "secured" ELSE "open"

WifiBegin ==
    /\ pc = "wifi"
    /\ LET configured == configuration.WifiConfigured
           apSecret == ApSecretArgument(encryption,
                                        configuration.accessPointSecret)
       IN /\ mode' = ModeFor(configured)
          /\ IF mode' = "client"
             THEN net' = [net EXCEPT
                      !.handler = TRUE,
                      !.configured = configured,
                      !.staticApplied = StaticConfigDue(prefs),
                      !.static = IF StaticConfigDue(prefs)
                                 THEN StaticConfigOf(prefs) ELSE NoTriple,
                      !.staBegun = TRUE]
             ELSE net' = [net EXCEPT
                      !.handler = TRUE,
                      !.configured = configured,
                      !.ap = ApStart(apSecret),
                      !.apSecret = apSecret]
    /\ hist' = [hist EXCEPT !.lastOp = "WifiBegin"]
    /\ pc' = "running"
    /\ UNCHANGED <<sketch, reason, cfgFile, configuration, prefs, encryption,
                   action, bootLog, pre, task, gen>>

----------------------------------------------------------------------------
(* WifiControl::WiFiEvent *)

GotIpPrefs_swapped(p, t) ==
    PutUInt(PutStrings(p, IPToString(t.ip), IPToString(t.mask),
                       IPToString(t.gw)), 0)

\* WifiControl.cpp:104-116
GotIpPrefs(p, t) ==
    PutUInt(PutStrings(p, IPToString(t.ip), IPToString(t.gw),
                       IPToString(t.mask)), 0)

GotIp(t) ==
    /\ pc = "running" /\ net.handler /\ net.staBegun
    /\ prefs' = GotIpPrefs(prefs, t)
    /\ hist' = [hist EXCEPT !.streak = 0, !.sinceClear = 0, !.run = 0,
                            !.gotIp = TRUE, !.lastGotIp = t,
                            !.lastOp = "GotIp"]
    /\ UNCHANGED <<pc, sketch, reason, cfgFile, configuration, encryption,
                   mode, net, action, bootLog, pre, task, gen>>

Reconnect_never(n) == n

\* WifiControl.cpp:120: one more call of WiFi.reconnect()
Reconnect(n) == n + 1

Disconnected ==
    /\ pc = "running" /\ net.handler /\ net.staBegun
    /\ net.reconnects < MaxReconnects
    /\ net' = [net EXCEPT !.reconnects = Reconnect(@)]
    /\ hist' = [hist EXCEPT !.lastOp = "Disconnected"]
    /\ UNCHANGED <<pc, sketch, reason, cfgFile, configuration, prefs,
                   encryption, mode, action, bootLog, pre, task, gen>>

OtherEvent ==
    /\ pc = "running" /\ net.handler
    /\ hist.lastOp # "OtherEvent"
    /\ hist' = [hist EXCEPT !.lastOp = "OtherEvent"]
    /\ UNCHANGED <<pc, sketch, reason, cfgFile, configuration, prefs,
                   encryption, mode, net, action, bootLog, pre, task, gen>>

----------------------------------------------------------------------------
(* Configuration UI: the form is submitted, the configuration is saved and *)
(* the callback of Basecamp.cpp:188-191 restarts the device.               *)

shouldEnableConfigWebserver ==
    \/ sketch.ui = "always"
    \/ (sketch.ui = "accessPoint" /\ mode = "accessPoint")

ConfigSubmit(v) ==
    /\ pc = "running"
    /\ shouldEnableConfigWebserver
    /\ configuration' = [configuration EXCEPT !.WifiConfigured = v,
                                              !.WifiEssid = "net"]
    /\ cfgFile' = Saved(configuration')
    /\ hist' = [hist EXCEPT !.run = 0, !.lastOp = "ConfigSubmit"]
    /\ pc' = "restart"
    /\ UNCHANGED <<sketch, reason, prefs, encryption, mode, net, action,
                   bootLog, pre, task, gen>>

----------------------------------------------------------------------------

Next ==
    \/ \E r \in ResetReasons : Boot(r)
    \/ checkResetReason
    \/ ResolveSecret
    \/ WifiBegin
    \/ \E t \in AcquiredTriples : GotIp(t)
    \/ Disconnected
    \/ OtherEvent
    \/ \E v \in {"True", "true"} : ConfigSubmit(v)

Spec == Init /\ [][Next]_vars

----------------------------------------------------------------------------
(* Properties of checkResetReason.  "Evaluated" is the state in which      *)
(* checkResetReason has just returned or restarted the device; pre holds   *)
(* the persisted state it started from.                                    *)

Evaluated == hist.lastOp = "checkResetReason"

\* C1: a qualifying boot that starts with bootcounter = 3 sets WifiConfigured
\* to "False" and saves it, leaves bootcounter cleared (0) and restarts the
\* device (ResetNetworkConfigAndReboot), whatever WifiConfigured was before.
C1_NetworkConfigReset ==
    (Evaluated /\ Qualifying(reason) /\ GetUInt(pre.prefs, 0) = 3) =>
        /\ configuration.WifiConfigured = "False"
        /\ cfgFile.exists /\ cfgFile.data.WifiConfigured = "False"
        /\ GetUInt(prefs, 0) = 0
        /\ action = "ResetNetworkConfigAndReboot"
        /\ pc = "restart"

C1_Witness ==
    /\ Evaluated /\ Qualifying(reason) /\ GetUInt(pre.prefs, 0) = 3
    /\ pre.configuration.WifiConfigured = "True"
    /\ action = "ResetNetworkConfigAndReboot"

\* C2: a qualifying boot that starts with bootcounter = 2 and WifiConfigured
\* = "False" erases the configuration file system, leaves bootcounter cleared
\* (0) and restarts the device (FactoryResetAndReboot).
C2_FactoryReset ==
    (/\ Evaluated /\ Qualifying(reason) /\ GetUInt(pre.prefs, 0) = 2
     /\ pre.configuration.WifiConfigured = "False") =>
        /\ ~cfgFile.exists
        /\ GetUInt(prefs, 0) = 0
        /\ action = "FactoryResetAndReboot"
        /\ pc = "restart"

C2_Witness ==
    /\ Evaluated /\ Qualifying(reason) /\ GetUInt(pre.prefs, 0) = 2
    /\ pre.configuration.WifiConfigured = "False"
    /\ pre.cfgFile.exists /\ ~cfgFile.exists

\* C3: a qualifying boot that starts with bootcounter 0 or 1, or with
\* bootcounter 2 and WifiConfigured = "True", continues the normal boot and
\* changes nothing persisted except bootcounter, which becomes the old value
\* plus one: configuration, file system and cached addresses are unchanged.
C3_OnlyIncrement ==
    (/\ Evaluated /\ Qualifying(reason)
     /\ \/ GetUInt(pre.prefs, 0) \in {0, 1}
        \/ (GetUInt(pre.prefs, 0) = 2
            /\ pre.configuration.WifiConfigured = "True")) =>
        /\ action = "ContinueNormalBoot"
        /\ pc = "secret"
        /\ GetUInt(prefs, 0) = GetUInt(pre.prefs, 0) + 1
        /\ prefs.has = pre.prefs.has \cup {"bootcounter"}
        /\ prefs.ipaddress = pre.prefs.ipaddress
        /\ prefs.gatewayIp = pre.prefs.gatewayIp
        /\ prefs.subnetMask = pre.prefs.subnetMask
        /\ configuration = pre.configuration
        /\ cfgFile = pre.cfgFile

C3_Witness ==
    /\ Evaluated /\ Qualifying(reason) /\ GetUInt(pre.prefs, 0) = 2
    /\ pre.configuration.WifiConfigured = "True"
    /\ "ipaddress" \in pre.prefs.has
    /\ GetUInt(prefs, 0) = 3

\* C4: a boot with a non-qualifying reset cause leaves bootcounter at 0 for
\* every prior counter value and configured flag, continues the normal boot
\* and does not modify the configuration.
C4_OtherCauseClears ==
    (Evaluated /\ ~Qualifying(reason)) =>
        /\ GetUInt(prefs, 0) = 0
        /\ action = "ContinueNormalBoot"
        /\ pc = "secret"
        /\ configuration = pre.configuration
        /\ cfgFile = pre.cfgFile

C4_Witness ==
    /\ Evaluated /\ ~Qualifying(reason) /\ GetUInt(pre.prefs, 0) = 3
    /\ GetUInt(prefs, 0) = 0

----------------------------------------------------------------------------
(* The counter as a count of consecutive qualifying boots.  hist.streak    *)
(* counts the qualifying boot evaluations since the last non-qualifying    *)
(* boot or GOT_IP event; hist.sinceClear is also reset by the two recovery *)
(* actions.                                                                *)

\* C5 (as stated): after each boot evaluation bootcounter equals the number
\* of consecutive qualifying boots since the most recent non-qualifying boot
\* or GOT_IP event.
C5_CounterEqualsStreak ==
    Evaluated => GetUInt(prefs, 0) = hist.streak

\* C5 (amended): bootcounter equals the number of consecutive qualifying boots
\* since the most recent non-qualifying boot, GOT_IP event or recovery action
\* (network-config reset or factory reset); it only ever decreases by going
\* to zero, and it does so exactly on those three occasions.
C5_CounterEqualsStreakSinceClear ==
    /\ [](GetUInt(prefs, 0) = hist.sinceClear)
    /\ [][GetUInt(prefs', 0) < GetUInt(prefs, 0) =>
            /\ GetUInt(prefs', 0) = 0
            /\ \/ hist'.lastOp = "GotIp"
               \/ (hist'.lastOp = "checkResetReason"
                   /\ (~Qualifying(reason) \/ action' \in Recovery))]_vars

C5_Witness ==
    /\ Evaluated /\ action = "ResetNetworkConfigAndReboot"
    /\ hist.streak = 4 /\ hist.sinceClear = 0 /\ GetUInt(prefs, 0) = 0

----------------------------------------------------------------------------
(* Mode decision and network events *)

\* C7: after WifiControl::begin the mode is client if and only if the
\* configured flag given to begin is "True", and accessPoint otherwise,
\* whatever the other inputs are; it is never unconfigured again and no
\* later network event of the same boot changes it.
C7_ModeFollowsConfiguredFlag ==
    net.handler =>
        /\ mode # "unconfigured"
        /\ (mode = "client") <=> (net.configured = "True")
        /\ (mode = "accessPoint") <=> (net.configured # "True")

C7_Witness ==
    /\ net.handler /\ mode = "accessPoint" /\ net.configured = "true"
    /\ hist.lastOp = "OtherEvent"

\* C8: every GOT_IP event leaves bootcounter stored as 0 and the stored
\* ipaddress, gatewayIp and subnetMask equal to the address, gateway and
\* mask just acquired, whatever was cached before.
C8_GotIpPersists ==
    hist.lastOp = "GotIp" =>
        /\ "bootcounter" \in prefs.has /\ GetUInt(prefs, 7) = 0
        /\ FromString(GetString(prefs, "ipaddress", <<>>)) =
              [ok |-> TRUE, addr |-> hist.lastGotIp.ip]
        /\ FromString(GetString(prefs, "gatewayIp", <<>>)) =
              [ok |-> TRUE, addr |-> hist.lastGotIp.gw]
        /\ FromString(GetString(prefs, "subnetMask", <<>>)) =
              [ok |-> TRUE, addr |-> hist.lastGotIp.mask]

C8_Witness ==
    /\ hist.lastOp = "GotIp"
    /\ "ipaddress" \in pre.prefs.has
    /\ pre.prefs.ipaddress # prefs.ipaddress
    /\ Qualifying(reason) /\ action = "ContinueNormalBoot"

\* C9: once a GOT_IP event has stored an address triple, the triple stays
\* stored unchanged across reboots until the next GOT_IP event, and the next
\* boot that selects client mode requests exactly that static address,
\* gateway and mask, whichever reset cause started it.
C9_CachedTripleSurvivesReboots ==
    hist.gotIp =>
        /\ GetString(prefs, "ipaddress", <<>>) = IPToString(hist.lastGotIp.ip)
        /\ GetString(prefs, "gatewayIp", <<>>) = IPToString(hist.lastGotIp.gw)
        /\ GetString(prefs, "subnetMask", <<>>) =
              IPToString(hist.lastGotIp.mask)
        /\ (hist.lastOp = "WifiBegin" /\ mode = "client") =>
              (net.staticApplied /\ net.static = hist.lastGotIp)

----------------------------------------------------------------------------
(* Static address request of WifiControl::begin as a function of the three *)
(* cached strings: the startup sequence from flash contents in which each  *)
(* of ipaddress, gatewayIp and subnetMask is absent, well-formed or        *)
(* malformed.                                                              *)

CachedStrings ==
    { <<>>,
      <<"1", "9", "2", ".", "1", "6", "8", ".", "1", ".", "2", "3">>,
      <<"2", "5", "5", ".", "2", "5", "5", ".", "0", ".", "0">>,
      <<"3", "0", "0", ".", "1", ".", "1", ".", "1">>,
      <<"1", "0", ".", "0", ".", "7">>,
      <<"1", ".", "2", ".", "3", ".", "4", ".", "5">>,
      <<"1", "0", ".", "x", ".", "0", ".", "1">>,
      <<"1", "0", ".", ".", "0", ".", "1">> }

PrefsWith(ip, gw, mask) ==
    [has |-> {k \in {"ipaddress", "gatewayIp", "subnetMask"} :
                \/ (k = "ipaddress" /\ ip # <<>>)
                \/ (k = "gatewayIp" /\ gw # <<>>)
                \/ (k = "subnetMask" /\ mask # <<>>)},
     bootcounter |-> 0, ipaddress |-> ip, gatewayIp |-> gw,
     subnetMask |-> mask]

InitStatic ==
    /\ pc = "off"
    /\ sketch = [encryption |-> "secured", ui |-> "always", fixedPw |-> <<>>]
    /\ reason = 0
    /\ cfgFile \in { Saved([ConfigDefaults EXCEPT !.WifiConfigured = v]) :
                       v \in {"True", "False"} }
    /\ configuration = ConfigDefaults
    /\ \E ip \in CachedStrings, gw \in CachedStrings, mask \in CachedStrings :
          prefs = PrefsWith(ip, gw, mask)
    /\ encryption = sketch.encryption
    /\ mode = "unconfigured"
    /\ net = NetOff
    /\ action = "none"
    /\ bootLog = <<>>
    /\ pre = PreOf(prefs, configuration, cfgFile)
    /\ hist = HistInit
    /\ task = TaskIdle
    /\ gen = GenIdle

NextStatic ==
    \/ \E r \in ResetReasons : Boot(r)
    \/ checkResetReason
    \/ ResolveSecret
    \/ WifiBegin

SpecStatic == InitStatic /\ [][NextStatic]_vars

Parses(p, key) == key \in p.has /\ FromString(GetString(p, key, <<>>)).ok

----------------------------------------------------------------------------
(* Disconnects, access point secret and ordering *)

\* C11: every DISCONNECTED event handled in client mode calls reconnect once
\* more, whatever the number of earlier attempts, and changes neither the
\* mode nor any persisted state; the mode decision is not taken again.
C11_DisconnectOnlyReconnects ==
    [][hist'.lastOp = "Disconnected" =>
          /\ mode = "client" /\ mode' = mode
          /\ net'.reconnects = net.reconnects + 1
          /\ net'.configured = net.configured
          /\ prefs' = prefs
          /\ configuration' = configuration
          /\ cfgFile' = cfgFile
          /\ pc' = pc]_vars

C11_Witness ==
    /\ hist.lastOp = "Disconnected" /\ mode = "client"
    /\ net.reconnects >= 2 /\ GetUInt(prefs, 0) = 3

InAlphabet(s) ==
    \A i \in 1..Len(s) : \E j \in 1..Len(validChars) : validChars[j] = s[i]

PersistedSecret ==
    IF cfgFile.exists THEN cfgFile.data.accessPointSecret ELSE <<>>

\* C13: once an access point secret is persisted it keeps its value across
\* all later reboots, reset causes and recovery actions, factory reset
\* included, and changes only when begin is called with an override of
\* length >= 8.
C13_SecretStable ==
    [][(PersistedSecret # <<>> /\ PersistedSecret' # PersistedSecret) =>
          /\ hist'.lastOp = "ResolveSecret"
          /\ Len(sketch.fixedPw) >= minApSecretLength
          /\ PersistedSecret' = sketch.fixedPw]_vars

\* C14 (as stated): in access point mode the network is started with the
\* resolved secret whenever a secret exists, and open only when none exists.
C14_OpenOnlyWithoutSecret ==
    (hist.lastOp = "WifiBegin" /\ mode = "accessPoint") =>
        /\ (configuration.accessPointSecret # <<>>) =>
              (net.ap = "secured"
               /\ net.apSecret = configuration.accessPointSecret)
        /\ (net.ap = "open") => (configuration.accessPointSecret = <<>>)

\* C14 (amended): in access point mode the network is started with the
\* resolved secret if and only if the encryption policy is secured; with the
\* policy none it is started open, although a secret is persisted by then.
C14_ApEncryptionFollowsPolicy ==
    (hist.lastOp = "WifiBegin" /\ mode = "accessPoint") =>
        /\ configuration.accessPointSecret # <<>>
        /\ (encryption = "secured") =>
              (net.ap = "secured"
               /\ net.apSecret = configuration.accessPointSecret)
        /\ (encryption = "none") => (net.ap = "open" /\ net.apSecret = <<>>)

C14_Witness ==
    /\ hist.lastOp = "WifiBegin" /\ mode = "accessPoint"
    /\ encryption = "none" /\ net.ap = "open"
    /\ Len(configuration.accessPointSecret) = 8

Pos(log, call) ==
    IF \E i \in 1..Len(log) : log[i] = call
    THEN CHOOSE i \in 1..Len(log) :
            log[i] = call /\ \A j \in 1..(i - 1) : log[j] # call
    ELSE 0

Before(log, a, b) == Pos(log, a) > 0 /\ Pos(log, a) < Pos(log, b)

ClosedBeforeWifi ==
    (pc \in {"wifi", "running"} \/ net.handler) =>
        /\ action = "ContinueNormalBoot"
        /\ Len(bootLog) > 0 /\ bootLog[Len(bootLog)] = "preferences.end"

\* C15 (as stated): in a recovery boot the close of the preferences precedes
\* the file system format and the restart; in a normal boot the preferences
\* are closed before WifiControl::begin starts and registers the handler.
C15_CloseBeforeFormatAndRestart ==
    /\ action \in Recovery =>
          Before(bootLog, "preferences.end", "ESP.restart")
    /\ action = "FactoryResetAndReboot" =>
          Before(bootLog, "preferences.end", "SPIFFS.format")
    /\ ClosedBeforeWifi

\* C15 (amended): in a recovery boot the close of the preferences precedes
\* the restart; in a factory reset the file system is formatted first, then
\* the preferences are cleared and closed; in a normal boot the preferences
\* are closed before WifiControl::begin starts and registers the handler.
C15_CloseBeforeRestart ==
    /\ action \in Recovery =>
          Before(bootLog, "preferences.end", "ESP.restart")
    /\ action = "FactoryResetAndReboot" =>
          /\ Before(bootLog, "SPIFFS.format", "preferences.clear")
          /\ Before(bootLog, "preferences.clear", "preferences.end")
    /\ ClosedBeforeWifi

C15_Witness ==
    /\ Evaluated /\ action = "FactoryResetAndReboot"
    /\ Pos(bootLog, "SPIFFS.format") = 2 /\ ~cfgFile.exists

\* C16: from a device whose flag is "True", a factory reset happens only
\* after a network-config reset of an earlier boot: no boot does both, the
\* counter is 0 after the network-config reset, and the factory reset takes
\* three more qualifying boots counted from zero.
C16_TwoStageDegradation ==
    /\ hist.stage # "skipped"
    /\ (Evaluated /\ action = "FactoryResetAndReboot"
        /\ hist.stage = "wiped") =>
          (hist.afterReset = 3 /\ GetUInt(pre.prefs, 0) = 2)
    /\ (Evaluated /\ action = "ResetNetworkConfigAndReboot") =>
          (GetUInt(prefs, 0) = 0 /\ cfgFile.exists)
    /\ ~(Pos(bootLog, "configuration.set") > 0
         /\ Pos(bootLog, "SPIFFS.format") > 0)

C16_Witness ==
    /\ Evaluated /\ action = "FactoryResetAndReboot"
    /\ hist.stage = "wiped" /\ hist.afterReset = 3

\* C19 (as stated): a secret is generated and persisted only by a boot that
\* selects access point mode with encryption required.
C19_GeneratedOnlyForSecuredAp ==
    (net.handler /\ hist.generated) =>
        (mode = "accessPoint" /\ encryption = "secured")

\* C19 (amended): a secret is generated and persisted by every boot that
\* continues normally, finds no persisted secret and has no override of
\* length >= 8, whichever mode it selects and whatever its encryption
\* policy; a boot that finds a persisted secret generates none.
C19_GeneratedWhenNoneStored ==
    (pc \in {"wifi", "running"}) =>
        /\ hist.generated <=>
              (/\ pre.configuration.accessPointSecret = <<>>
               /\ Len(sketch.fixedPw) < minApSecretLength)
        /\ hist.generated =>
              (/\ Len(configuration.accessPointSecret) = defaultApSecretLength
               /\ PersistedSecret = configuration.accessPointSecret)

C19_Witness ==
    /\ net.handler /\ pc = "running" /\ hist.generated
    /\ mode = "client" /\ encryption = "none"

\* C20: in every reachable state the persisted bootcounter is between 0 and
\* 3: the value 4 is computed at boot but never written.
C20_CounterBounded ==
    /\ GetUInt(prefs, 0) \in 0..3
    /\ prefs.bootcounter \in 0..3

C20_Witness ==
    /\ Evaluated /\ IncrementedCounter(pre.prefs) = 4
    /\ GetUInt(prefs, 0) = 0

\* C21 (as stated): for every stored value of WifiConfigured, a qualifying
\* boot that starts with bootcounter = 2 does the factory reset exactly when
\* that value makes WifiControl::begin select access point mode.
C21_TrackerAgreesWithMode ==
    (Evaluated /\ Qualifying(reason) /\ GetUInt(pre.prefs, 0) = 2) =>
        ((action = "FactoryResetAndReboot") <=>
         (ModeFor(pre.configuration.WifiConfigured) = "accessPoint"))

----------------------------------------------------------------------------
(* generateRandomSecret as a function of the requested length and of the   *)
(* values esp_random() returns.                                            *)

SecretStreams ==
    { [i \in 0..(MaxSecretLength + 1) |-> a * i + b] :
        a \in 0..5, b \in {0, 17, 60, 61, 1000003} }

InitSecret ==
    /\ pc = "off"
    /\ sketch = [encryption |-> "secured", ui |-> "always", fixedPw |-> <<>>]
    /\ reason = 0
    /\ cfgFile = Formatted
    /\ configuration = ConfigDefaults
    /\ prefs = PrefsCleared
    /\ encryption = sketch.encryption
    /\ mode = "unconfigured"
    /\ net = NetOff
    /\ action = "none"
    /\ bootLog = <<>>
    /\ pre = PreOf(prefs, configuration, cfgFile)
    /\ hist = HistInit
    /\ task = TaskIdle
    /\ gen \in [length : 0..MaxSecretLength, secret : {<<>>}, done : {FALSE}]

Generate(rnd) ==
    /\ ~gen.done
    /\ gen' = [gen EXCEPT !.secret = generateRandomSecret(gen.length, rnd),
                          !.done = TRUE]
    /\ UNCHANGED <<pc, sketch, reason, cfgFile, configuration, prefs,
                   encryption, mode, net, action, bootLog, pre, hist, task>>

NextSecret == \E rnd \in SecretStreams : Generate(rnd)

SpecSecret == InitSecret /\ [][NextSecret]_vars

\* C18: generateRandomSecret(n) returns a string of length exactly
\* max(n, 8), every character of which comes from the fixed alphabet, and
\* the alphabet contains neither "O" nor "0" nor "1".
C18_SecretLengthAndAlphabet ==
    /\ gen.done =>
          /\ Len(gen.secret) =
                (IF gen.length > minApSecretLength THEN gen.length
                 ELSE minApSecretLength)
          /\ InAlphabet(gen.secret)
          /\ \A i \in 1..Len(gen.secret) : gen.secret[i] \notin {"O", "0", "1"}
    /\ \A j \in 1..Len(validChars) : validChars[j] \notin {"O", "0", "1"}

C18_Witness ==
    /\ gen.done /\ gen.length = 4 /\ Len(gen.secret) = 8
    /\ gen.secret[1] # gen.secret[2]

----------------------------------------------------------------------------
(* The "basecamp" preferences namespace under its two writers, step by     *)
(* step: the startup sequence runs checkResetReason as open, read, branch, *)
(* close; the network driver's event task takes queued events one at a     *)
(* time and runs WiFiEvent as open, read, switch, close.                   *)

BracketEvents ==
    { [kind |-> "GOT_IP", t |-> t] : t \in AcquiredTriples } \cup
    {
      [kind |-> "DISCONNECTED", t |-> NoTriple],
      [kind |-> "OTHER", t |-> NoTriple] }

HandlerRegistered_early == pc # "off"

\* WifiControl.cpp:27: WiFi.onEvent(WiFiEvent) runs inside WifiControl::begin,
\* which Basecamp::begin calls after checkResetReason has returned.
HandlerRegistered == net.handler

\* Basecamp.cpp:232
MainOpen ==
    /\ pc = "check" /\ task.main = "idle"
    /\ task' = [task EXCEPT !.main = "open"]
    /\ UNCHANGED <<pc, sketch, reason, cfgFile, configuration, prefs,
                   encryption, mode, net, action, bootLog, pre, hist, gen>>

\* Basecamp.cpp:239-243
MainRead ==
    /\ task.main = "open"
    /\ task' = [task EXCEPT !.main = "read",
                            !.bootCounter = IF Qualifying(reason)
                                            THEN IncrementedCounter(prefs)
                                            ELSE 0]
    /\ UNCHANGED <<pc, sketch, reason, cfgFile, configuration, prefs,
                   encryption, mode, net, action, bootLog, pre, hist, gen>>

\* Basecamp.cpp:249-284, with the counter held in the local variable
MainBranch ==
    /\ task.main = "read"
    /\ ResetReasonEffects(task.bootCounter)
    /\ task' = [task EXCEPT !.main = "written"]
    /\ hist' = CheckedHist(hist, reason, action', prefs, configuration)
    /\ UNCHANGED <<pc, sketch, reason, encryption, mode, net, pre, gen>>

\* Basecamp.cpp:258, 271, 286
MainClose ==
    /\ task.main = "written"
    /\ task' = [task EXCEPT !.main = "idle"]
    /\ pc' = IF action \in Recovery THEN "restart" ELSE "secret"
    /\ UNCHANGED <<sketch, reason, cfgFile, configuration, prefs, encryption,
                   mode, net, action, bootLog, pre, hist, gen>>

\* The driver posts an event to its queue.
EventArrives(e) ==
    /\ HandlerRegistered
    /\ task.arrived < MaxEvents
    /\ e.kind \in {"GOT_IP", "DISCONNECTED"} => net.staBegun
    /\ task' = [task EXCEPT !.queue = Append(@, e), !.arrived = @ + 1]
    /\ UNCHANGED <<pc, sketch, reason, cfgFile, configuration, prefs,
                   encryption, mode, net, action, bootLog, pre, hist, gen>>

\* WifiControl.cpp:89-92
HandlerOpen ==
    /\ task.h = "idle" /\ task.queue # <<>>
    /\ task' = [task EXCEPT !.h = "open", !.event = Head(task.queue),
                            !.queue = Tail(@)]
    /\ UNCHANGED <<pc, sketch, reason, cfgFile, configuration, prefs,
                   encryption, mode, net, action, bootLog, pre, hist, gen>>

\* WifiControl.cpp:93
HandlerRead ==
    /\ task.h = "open"
    /\ task' = [task EXCEPT !.h = "read", !.hCounter = GetUInt(prefs, 0)]
    /\ UNCHANGED <<pc, sketch, reason, cfgFile, configuration, prefs,
                   encryption, mode, net, action, bootLog, pre, hist, gen>>

\* WifiControl.cpp:102-125
HandlerSwitch ==
    /\ task.h = "read"
    /\ task' = [task EXCEPT !.h = "switched"]
    /\ IF task.event.kind = "GOT_IP"
       THEN /\ prefs' = GotIpPrefs(prefs, task.event.t)
            /\ hist' = [hist EXCEPT !.streak = 0, !.sinceClear = 0, !.run = 0,
                                    !.gotIp = TRUE,
                                    !.lastGotIp = task.event.t,
                                    !.lastOp = "GotIp"]
            /\ UNCHANGED net
       ELSE IF task.event.kind = "DISCONNECTED"
       THEN /\ net' = [net EXCEPT !.reconnects = Reconnect(@)]
            /\ hist' = [hist EXCEPT !.lastOp = "Disconnected"]
            /\ UNCHANGED prefs
       ELSE /\ hist' = [hist EXCEPT !.lastOp = "OtherEvent"]
            /\ UNCHANGED <<prefs, net>>
    /\ UNCHANGED <<pc, sketch, reason, cfgFile, configuration, encryption,
                   mode, action, bootLog, pre, gen>>

\* WifiControl.cpp:127
HandlerClose ==
    /\ task.h = "switched"
    /\ task' = [task EXCEPT !.h = "idle"]
    /\ UNCHANGED <<pc, sketch, reason, cfgFile, configuration, prefs,
                   encryption, mode, net, action, bootLog, pre, hist, gen>>

InitBracket ==
    /\ pc = "off"
    /\ sketch = [encryption |-> "none", ui |-> "always", fixedPw |-> <<>>]
    /\ reason = 0
    /\ cfgFile \in { Saved([ConfigDefaults EXCEPT !.WifiConfigured = v]) :
                       v \in {"True", "False"} }
    /\ configuration = ConfigDefaults
    /\ prefs = PrefsCleared
    /\ encryption = sketch.encryption
    /\ mode = "unconfigured"
    /\ net = NetOff
    /\ action = "none"
    /\ bootLog = <<>>
    /\ pre = PreOf(prefs, configuration, cfgFile)
    /\ hist = HistInit
    /\ task = TaskIdle
    /\ gen = GenIdle

NextBracket ==
    \/ \E r \in ResetReasons : Boot(r)
    \/ MainOpen
    \/ MainRead
    \/ MainBranch
    \/ MainClose
    \/ ResolveSecret
    \/ WifiBegin
    \/ \E e \in BracketEvents : EventArrives(e)
    \/ HandlerOpen
    \/ HandlerRead
    \/ HandlerSwitch
    \/ HandlerClose

SpecBracket == InitBracket /\ [][NextBracket]_vars

====
